---- MODULE Spec2Model ----
(***************************************************************************)
(* Model of tutorials/synthesis/echo.cpp: the SineEnv voice (init,         *)
(* onProcess) and the MyApp callbacks (onSound, onKeyDown, onKeyUp).       *)
(*                                                                         *)
(* Fixed point: gains, levels and samples are in thousandths (Unit = 1.0), *)
(* times in hundredths of a second, frequencies in whole Hz.               *)
(*                                                                         *)
(* The audio callback and the window/GUI loop run concurrently, so         *)
(* onProcess is split at the places where the other thread can be seen:    *)
(* the parameter reads before the loop, each pass of the sample loop, and  *)
(* the test after the loop.                                                *)
(***************************************************************************)
EXTENDS Integers, Naturals, Sequences, FiniteSets, TLC

\* ---------------------------------------------------------------- bounds
MaxVoices == 2
MaxFrames == 2
MaxRecalls == 1
MaxTweaks == 1
ModelSampleRate == 1

\* ------------------------------------------------------ program constants
Unit == 1000
AmplitudeDefault == 300
AmplitudeMin == 0
AmplitudeMax == 1000
FrequencyDefault == 60
FrequencyMin == 20
FrequencyMax == 5000
AttackDefault == 100
AttackMin == 1
AttackMax == 300
ReleaseDefault == 300
ReleaseMin == 10
ReleaseMax == 1000
PanDefault == 0
PanMin == -1000
PanMax == 1000
FollowThreshold == 1
TuningHz == 432
ReferenceNote == 69
EnvSize == 3
SustainPoint == 2

VoiceIds == 1..MaxVoices
Frames == 1..MaxFrames
Channels == {0, 1}

ParamNames == {"amplitude", "frequency", "attackTime", "releaseTime", "pan"}

\* ------------------------------------------------------------- arithmetic
Abs(x) == IF x < 0 THEN -x ELSE x

Sign(x) == IF x < 0 THEN -1 ELSE IF x > 0 THEN 1 ELSE 0

\* a * b for two fixed-point numbers, rounded toward zero as a float cast is
Mul(a, b) == Sign(a) * Sign(b) * ((Abs(a) * Abs(b)) \div Unit)

RECURSIVE Pow2(_)
Pow2(n) == IF n <= 0 THEN 1 ELSE 2 * Pow2(n - 1)

\* 2^(k/12) for k in 0..11, in millionths
SemitoneRatio ==
  <<1000000, 1059463, 1122462, 1189207, 1259921, 1334840,
    1414214, 1498307, 1587401, 1681793, 1781797, 1887749>>

\* ------------------------------------------------------------- keyboard
\* Key codes the keyboard can send: two keys of the note rows and one key
\* (space) that is on no row.
Keys == {97, 115, 32}

\* asciiToMIDI(k.key()): a note number, 0 for a key that is on no row
AsciiToMIDI(key) == IF key = 97 THEN 68 ELSE IF key = 115 THEN 69 ELSE 0

\* asciiToIndex(k.key()): the preset index of a key, 0 for a key on no row
AsciiToIndex(key) == IF key = 97 THEN 20 ELSE IF key = 115 THEN 21 ELSE 0

NoteKeys == {k \in Keys : AsciiToMIDI(k) > 0}

\* ::pow(2.f, (midiNote - 69.f) / 12.f) * 432.f, in whole Hz
KeyFrequency(midiNote) ==
  LET semis == midiNote - ReferenceNote
      oct   == semis \div 12
      ratio == SemitoneRatio[(semis % 12) + 1]
  IN  IF oct >= 0
        THEN (TuningHz * ratio * Pow2(oct)) \div 1000000
        ELSE (TuningHz * ratio) \div (1000000 * Pow2(-oct))

\* ------------------------------------------------------------ parameters
ParamMin(name) ==
  CASE name = "amplitude"   -> AmplitudeMin
    [] name = "frequency"   -> FrequencyMin
    [] name = "attackTime"  -> AttackMin
    [] name = "releaseTime" -> ReleaseMin
    [] name = "pan"         -> PanMin

ParamMax(name) ==
  CASE name = "amplitude"   -> AmplitudeMax
    [] name = "frequency"   -> FrequencyMax
    [] name = "attackTime"  -> AttackMax
    [] name = "releaseTime" -> ReleaseMax
    [] name = "pan"         -> PanMax

\* createInternalTriggerParameter(name, default, min, max), five times
DefaultParams ==
  [amplitude   |-> AmplitudeDefault,
   frequency   |-> FrequencyDefault,
   attackTime  |-> AttackDefault,
   releaseTime |-> ReleaseDefault,
   pan         |-> PanDefault]

\* setInternalParameterValue(name, value): the parameter keeps the value
\* within the bounds it was created with
SetInternalParameterValue(par, name, value) ==
  LET v == IF value > ParamMax(name) THEN ParamMax(name)
           ELSE IF value < ParamMin(name) THEN ParamMin(name)
           ELSE value
  IN  [par EXCEPT ![name] = v]

\* getInternalParameterValue(name)
GetInternalParameterValue(par, name) == par[name]

\* Values the control panel's sliders are moved to while the program runs.
TweakValues(name) ==
  CASE name = "amplitude"   -> {0, 1000}
    [] name = "frequency"   -> {6000}
    [] name = "attackTime"  -> {200}
    [] name = "releaseTime" -> {100}
    [] name = "pan"         -> {1000}

\* ------------------------------------------------------ unit generators
\* mAmpEnv.levels(0, 1, 1, 0)
Levels == <<0, Unit, Unit, 0>>

\* gam::Env<3> as constructed and reset: before its first segment, not
\* released, three segments of (practically) no length
NewEnv == [stage |-> -1, pos |-> 0, len |-> 0, released |-> FALSE]

NewLengths == <<0, 0, 0>>

\* a segment's length in samples
SegmentSamples(cs) == (cs * ModelSampleRate) \div 100

EnvDone(env) == env.stage = EnvSize

\* (mutant) no sustain point was set
EnvNeverSustained(env) == FALSE

\* mAmpEnv.sustainPoint(2): held at point 2 until a release is issued
EnvSustained(env) == env.stage = SustainPoint /\ ~env.released

\* mAmpEnv.curve(0): the value pos samples into a segment, on the line from
\* the segment's first level to its last
EnvLine(stage, pos, len) ==
  IF len = 0 \/ pos >= len
    THEN Levels[stage + 2]
    ELSE Levels[stage + 1]
         + ((Levels[stage + 2] - Levels[stage + 1]) * pos) \div len

\* mAmpEnv(): the envelope after one more sample
EnvNext(env, lengths) ==
  IF EnvSustained(env) \/ EnvDone(env) THEN env
  ELSE IF env.pos >= env.len
    THEN LET st == env.stage + 1
         IN  IF st = EnvSize \/ EnvSustained([env EXCEPT !.stage = st])
               THEN [env EXCEPT !.stage = st, !.pos = 0, !.len = 0]
               ELSE [env EXCEPT !.stage = st, !.pos = 1,
                                !.len = SegmentSamples(lengths[st + 1])]
    ELSE [env EXCEPT !.pos = env.pos + 1]

\* mAmpEnv(): the value that call returns
EnvValue(env, lengths) ==
  LET nxt == EnvNext(env, lengths)
  IN  IF EnvSustained(nxt) \/ EnvDone(nxt) THEN Levels[nxt.stage + 1]
      ELSE EnvLine(nxt.stage, nxt.pos - 1, nxt.len)

\* mEnvFollow(s1): a one-pole smoothing of |s1|
FollowNext(follow, s) == (follow + Abs(s)) \div 2

\* mPan.pos(v): the two channel gains of gam::Pan<> at position v
PanGains(pos) ==
  LET c0 == 707
      c1 == (Unit \div 2) - c0
      w1 == ((c1 * pos * pos) \div (Unit * Unit)) - (pos \div 2) + c0
  IN  <<w1, w1 + pos>>

\* mOsc(): gam::Sine<> seen at the model's sample rate, where it is at a
\* peak at every sample: phase 0 is the positive peak, phase 1 the negative
OscValue(phase) == IF phase = 0 THEN Unit ELSE -Unit

OscNext(phase) == 1 - phase

\* (mutant) the test after the loop with || for &&
FreeConditionEither(env, follow) ==
  EnvDone(env) \/ follow < FollowThreshold

\* the test after the sample loop
FreeCondition(env, follow) == EnvDone(env) /\ follow < FollowThreshold

\* ------------------------------------------------------------------ state
VARIABLES
  control,      \* the parameters of the voice the control panel shows
  voices,       \* the synth's voices: VoiceIds -> voice
  offIds,       \* note ids whose note-off waits for the next audio callback
  heldKeys,     \* keys now down
  shiftDown,    \* k.shift()
  guiKeyboard,  \* ParameterGUI::usingKeyboard()
  recalled,     \* preset indices handed to recallPreset, latest last
  handled,      \* what the last key handler returned
  audio,        \* where the audio callback is
  out,          \* io.out(chan) of the buffer being rendered
  added,        \* what each voice added to each frame of that buffer
  tweaks        \* slider moves so far

vars ==
  <<control, voices, offIds, heldKeys, shiftDown, guiKeyboard, recalled,
    handled, audio, out, added, tweaks>>

\* a voice the synth has not allocated yet
NoVoice ==
  [state |-> "none", id |-> 0, par |-> DefaultParams, oscFreq |-> 0,
   phase |-> 0, panPos |-> 0, lengths |-> NewLengths, env |-> NewEnv,
   follow |-> 0, offCalled |-> FALSE]

\* SineEnv::init(), on a voice just constructed
InitVoice == [NoVoice EXCEPT !.state = "free"]

ZeroBuffer == [c \in Channels |-> [f \in Frames |-> 0]]

IdleAudio == [pc |-> "idle", cur |-> 0, frame |-> 0, pending |-> {}]

Active(v) == voices[v].state = "active"

Init ==
  /\ control = DefaultParams
  /\ voices = [v \in VoiceIds |-> NoVoice]
  /\ offIds = {}
  /\ heldKeys = {}
  /\ shiftDown = FALSE
  /\ guiKeyboard = FALSE
  /\ recalled = <<>>
  /\ handled = FALSE
  /\ audio = IdleAudio
  /\ out = ZeroBuffer
  /\ added = [v \in VoiceIds |-> ZeroBuffer]
  /\ tweaks = 0

\* ------------------------------------------------------- window thread
\* The voice a note-on gets: an idle voice if there is one, else a new one.
HasVoice == \E v \in VoiceIds : voices[v].state # "active"

GetVoice ==
  IF \E v \in VoiceIds : voices[v].state = "free"
    THEN CHOOSE v \in VoiceIds : voices[v].state = "free"
    ELSE CHOOSE v \in VoiceIds : voices[v].state = "none"

\* synthManager.triggerOn(midiNote): the voice takes the control voice's
\* parameters and the note as its id, and is active from then on. SineEnv
\* overrides no onTriggerOn, so nothing else of the voice changes.
TriggerOn(vs, par, midiNote) ==
  LET v    == GetVoice
      base == IF vs[v].state = "none" THEN InitVoice ELSE vs[v]
  IN  [vs EXCEPT ![v] = [base EXCEPT !.state = "active", !.id = midiNote,
                                     !.par = par, !.offCalled = FALSE]]

\* (mutant) the note-on without the frequency being set first
KeyDownParamsUnset(par, midiNote) == par

\* the frequency onKeyDown gives the control voice before the note-on
KeyDownParams(par, midiNote) ==
  SetInternalParameterValue(par, "frequency", KeyFrequency(midiNote))

\* (mutant) onKeyDown without the test of ParameterGUI::usingKeyboard()
KeyDownBranchNoFocus(key) ==
  IF shiftDown THEN "preset"
  ELSE IF AsciiToMIDI(key) > 0 THEN "note"
  ELSE "nothing"

\* which branch of onKeyDown a key takes
KeyDownBranch(key) ==
  IF guiKeyboard THEN "ignore"
  ELSE IF shiftDown THEN "preset"
  ELSE IF AsciiToMIDI(key) > 0 THEN "note"
  ELSE "nothing"

\* MyApp::onKeyDown
OnKeyDown(key) ==
  /\ key \notin heldKeys
  /\ KeyDownBranch(key) = "note" => HasVoice
  /\ KeyDownBranch(key) = "preset" => Len(recalled) < MaxRecalls
  /\ heldKeys' = heldKeys \cup {key}
  /\ handled' = TRUE
  /\ CASE KeyDownBranch(key) = "preset" ->
            /\ recalled' = Append(recalled, AsciiToIndex(key))
            /\ UNCHANGED <<control, voices>>
       [] KeyDownBranch(key) = "note" ->
            /\ control' = KeyDownParams(control, AsciiToMIDI(key))
            /\ voices' = TriggerOn(voices, control', AsciiToMIDI(key))
            /\ UNCHANGED recalled
       [] OTHER -> UNCHANGED <<control, voices, recalled>>
  /\ UNCHANGED <<offIds, shiftDown, guiKeyboard, audio, out, added, tweaks>>

\* (mutant) onKeyUp without the test midiNote > 0
KeyUpOffIdsAny(key) == {AsciiToMIDI(key)}

\* the note ids onKeyUp hands to synthManager.triggerOff
KeyUpOffIds(key) ==
  IF AsciiToMIDI(key) > 0 THEN {AsciiToMIDI(key)} ELSE {}

\* MyApp::onKeyUp
OnKeyUp(key) ==
  /\ key \in heldKeys
  /\ heldKeys' = heldKeys \ {key}
  /\ handled' = TRUE
  /\ offIds' = offIds \cup KeyUpOffIds(key)
  /\ UNCHANGED <<control, voices, shiftDown, guiKeyboard, recalled, audio,
                 out, added, tweaks>>

\* the shift key goes down or up
Shift ==
  /\ shiftDown' = ~shiftDown
  /\ UNCHANGED <<control, voices, offIds, heldKeys, guiKeyboard, recalled,
                 handled, audio, out, added, tweaks>>

\* a text field of the control panel takes or gives up the keyboard
GuiFocus ==
  /\ guiKeyboard' = ~guiKeyboard
  /\ UNCHANGED <<control, voices, offIds, heldKeys, shiftDown, recalled,
                 handled, audio, out, added, tweaks>>

\* a slider of the control panel is moved: the control voice's parameter
TweakControl(name, value) ==
  /\ tweaks < MaxTweaks
  /\ tweaks' = tweaks + 1
  /\ control' = SetInternalParameterValue(control, name, value)
  /\ control' # control
  /\ UNCHANGED <<voices, offIds, heldKeys, shiftDown, guiKeyboard, recalled,
                 handled, audio, out, added>>

\* a parameter of a sounding voice is changed while it sounds
TweakVoice(v, name, value) ==
  /\ tweaks < MaxTweaks
  /\ tweaks' = tweaks + 1
  /\ Active(v)
  /\ voices' = [voices EXCEPT
                  ![v].par = SetInternalParameterValue(@, name, value)]
  /\ voices' # voices
  /\ UNCHANGED <<control, offIds, heldKeys, shiftDown, guiKeyboard, recalled,
                 handled, audio, out, added>>

\* -------------------------------------------------------- audio thread
\* synthManager.render(io), first part: the note-offs that waited reach the
\* active voices with that id. SineEnv overrides no onTriggerOff, so the
\* call changes nothing else of the voice.
TurnOff(vs, ids) ==
  [v \in VoiceIds |->
     IF vs[v].state = "active" /\ vs[v].id \in ids
       THEN [vs[v] EXCEPT !.offCalled = TRUE]
       ELSE vs[v]]

\* (mutant) onProcess without mPan.pos(...): the pan is left as it was
ApplyParametersNoPan(voice) ==
  [voice EXCEPT
     !.oscFreq = GetInternalParameterValue(voice.par, "frequency"),
     !.lengths = [@ EXCEPT
                    ![1] = GetInternalParameterValue(voice.par, "attackTime"),
                    ![3] = GetInternalParameterValue(voice.par, "releaseTime")]]

\* SineEnv::onProcess, before the loop: four parameters go to the unit
\* generators
ApplyParameters(voice) ==
  [voice EXCEPT
     !.oscFreq = GetInternalParameterValue(voice.par, "frequency"),
     !.lengths = [@ EXCEPT
                    ![1] = GetInternalParameterValue(voice.par, "attackTime"),
                    ![3] = GetInternalParameterValue(voice.par, "releaseTime")],
     !.panPos = GetInternalParameterValue(voice.par, "pan")]

\* float s1 = mOsc() * mAmpEnv() * getInternalParameterValue("amplitude")
Sample(voice) ==
  Mul(Mul(OscValue(voice.phase), EnvValue(voice.env, voice.lengths)),
      GetInternalParameterValue(voice.par, "amplitude"))

\* mPan(s1, s1, s2): the two channels' samples
Panned(voice, s) ==
  LET w == PanGains(voice.panPos)
  IN  [c \in Channels |-> Mul(s, w[c + 1])]

\* (mutant) io.out(0) = s1; io.out(1) = s2
Overwrite(buf, frame, lr) ==
  [c \in Channels |-> [buf[c] EXCEPT ![frame] = lr[c]]]

\* io.out(0) += s1; io.out(1) += s2
Accumulate(buf, frame, lr) ==
  [c \in Channels |-> [buf[c] EXCEPT ![frame] = @ + lr[c]]]

\* what one pass of the loop leaves of the voice's unit generators
VoiceAfterSample(voice, s) ==
  [voice EXCEPT !.phase = OscNext(voice.phase),
                !.env = EnvNext(voice.env, voice.lengths),
                !.follow = FollowNext(voice.follow, s)]

\* SineEnv::onProcess, after the loop: free() when the voice is done
AfterLoop(voice) ==
  IF FreeCondition(voice.env, voice.follow)
    THEN [voice EXCEPT !.state = "free"]
    ELSE voice

\* synthManager.render(io) begins: the buffer starts silent, the waiting
\* note-offs are delivered, and the voices active now are the ones rendered
RenderBegin ==
  /\ audio.pc = "idle"
  /\ voices' = TurnOff(voices, offIds)
  /\ offIds' = {}
  /\ out' = ZeroBuffer
  /\ added' = [v \in VoiceIds |-> ZeroBuffer]
  /\ audio' = [pc |-> "pick", cur |-> 0, frame |-> 0,
               pending |-> {v \in VoiceIds : Active(v)}]
  /\ UNCHANGED <<control, heldKeys, shiftDown, guiKeyboard, recalled, handled,
                 tweaks>>

\* SineEnv::onProcess is entered for one of the voices to render
ProcessBegin(v) ==
  /\ audio.pc = "pick"
  /\ v \in audio.pending
  /\ voices' = [voices EXCEPT ![v] = ApplyParameters(@)]
  /\ audio' = [audio EXCEPT !.pc = "loop", !.cur = v, !.frame = 0]
  /\ UNCHANGED <<control, offIds, heldKeys, shiftDown, guiKeyboard, recalled,
                 handled, out, added, tweaks>>

\* SineEnv::onProcess, one pass of while (io())
ProcessSample ==
  /\ audio.pc = "loop"
  /\ audio.frame < MaxFrames
  /\ LET v  == audio.cur
         s  == Sample(voices[v])
         lr == Panned(voices[v], s)
         f  == audio.frame + 1
     IN  /\ voices' = [voices EXCEPT ![v] = VoiceAfterSample(@, s)]
         /\ out' = Accumulate(out, f, lr)
         /\ added' = [added EXCEPT ![v] = Accumulate(@, f, lr)]
         /\ audio' = [audio EXCEPT !.frame = f]
  /\ UNCHANGED <<control, offIds, heldKeys, shiftDown, guiKeyboard, recalled,
                 handled, tweaks>>

\* SineEnv::onProcess, the test after the loop, and the return
ProcessEnd ==
  /\ audio.pc = "loop"
  /\ audio.frame = MaxFrames
  /\ voices' = [voices EXCEPT ![audio.cur] = AfterLoop(@)]
  /\ audio' = [audio EXCEPT !.pc = "pick", !.cur = 0, !.frame = 0,
                            !.pending = @ \ {audio.cur}]
  /\ UNCHANGED <<control, offIds, heldKeys, shiftDown, guiKeyboard, recalled,
                 handled, out, added, tweaks>>

\* synthManager.render(io) ends: every voice to render was rendered, and
\* the buffer goes to the device
RenderEnd ==
  /\ audio.pc = "pick"
  /\ audio.pending = {}
  /\ audio' = IdleAudio
  /\ out' = ZeroBuffer
  /\ added' = [v \in VoiceIds |-> ZeroBuffer]
  /\ UNCHANGED <<control, voices, offIds, heldKeys, shiftDown, guiKeyboard,
                 recalled, handled, tweaks>>

\* MyApp::onSound, a step at a time: the other thread can run in between
OnSound ==
  \/ RenderBegin
  \/ \E v \in VoiceIds : ProcessBegin(v)
  \/ ProcessSample
  \/ ProcessEnd
  \/ RenderEnd

\* --------------------------------------------------------- specifications
\* The two threads, the audio callback a step at a time; the keyboard plays
\* notes (shift up, the control panel not holding the keyboard).
Next ==
  \/ \E key \in NoteKeys : OnKeyDown(key)
  \/ \E key \in NoteKeys : OnKeyUp(key)
  \/ \E name \in ParamNames : \E value \in TweakValues(name) :
       TweakControl(name, value)
  \/ \E v \in VoiceIds : \E name \in ParamNames :
       \E value \in TweakValues(name) : TweakVoice(v, name, value)
  \/ OnSound

Spec == Init /\ [][Next]_vars

\* Notes played with the sliders left alone, the audio callback being called
\* again and again by the audio device.
NextNotes ==
  \/ \E key \in NoteKeys : OnKeyDown(key)
  \/ \E key \in NoteKeys : OnKeyUp(key)
  \/ OnSound

FairSpec == Init /\ [][NextNotes]_vars /\ WF_vars(OnSound)

\* The window thread alone: the key handlers with shift, the control panel's
\* keyboard focus and its sliders.
NextKeys ==
  \/ \E key \in Keys : OnKeyDown(key)
  \/ \E key \in Keys : OnKeyUp(key)
  \/ Shift
  \/ GuiFocus
  \/ \E name \in ParamNames : \E value \in TweakValues(name) :
       TweakControl(name, value)

SpecKeys == Init /\ [][NextKeys]_vars

\* ----------------------------------------------------------------- claims
\* a note-on happens in this step for voice v
TriggeredNow(v) == ~Active(v) /\ voices'[v].state = "active"

\* 2^((note-69)/12) * 432 Hz for the notes of the keyboard, in whole Hz
TunedHz(note) == IF note = 69 THEN 432 ELSE IF note = 68 THEN 407 ELSE -1

\* C1: whenever a key press triggers a voice for a note, the voice starts
\* with its frequency parameter at 2^((note-69)/12) * 432 Hz, whatever the
\* control voice's frequency was before the key press.
C1_TriggerFrequency ==
  [][\A v \in VoiceIds :
       TriggeredNow(v) =>
         /\ voices'[v].id \in {AsciiToMIDI(k) : k \in NoteKeys}
         /\ voices'[v].par.frequency = TunedHz(voices'[v].id)]_vars

\* both notes sound, each voice with its own note's frequency: before the
\* second key press the control voice held the first note's frequency
C1_Witness ==
  \E v \in VoiceIds :
    /\ Active(v) /\ voices[v].id = 68 /\ voices[v].par.frequency = 407
    /\ \E w \in VoiceIds : Active(w) /\ voices[w].id = 69
                           /\ voices[w].par.frequency = 432

\* C2: onProcess frees a voice only when, at the end of the buffer, its
\* envelope is done and its follower level is below 0.001; a voice whose
\* envelope is not done or whose follower is at or above 0.001 stays active.
C2_FreeOnlyWhenDoneAndQuiet ==
  [][\A v \in VoiceIds :
       /\ (Active(v) /\ voices'[v].state # "active") =>
            (EnvDone(voices'[v].env) /\ voices'[v].follow < FollowThreshold)
       /\ (Active(v) /\ audio.pc = "loop" /\ audio'.pc = "pick"
           /\ audio.cur = v
           /\ (~EnvDone(voices[v].env) \/ voices[v].follow >= FollowThreshold))
            => voices'[v].state = "active"]_vars

\* onProcess has returned for a voice that was silent (follower below the
\* threshold) with its envelope not done, and the voice is still active
C2_Witness ==
  \E v \in VoiceIds :
    /\ Active(v) /\ audio.pc = "pick" /\ v \notin audio.pending
    /\ voices[v].env.stage >= 0
    /\ ~EnvDone(voices[v].env)
    /\ voices[v].follow < FollowThreshold

\* C3: a voice whose note-off was delivered is eventually freed, the audio
\* callback being called again and again.
C3_EventuallyFreed ==
  \A v \in VoiceIds :
    (Active(v) /\ voices[v].offCalled) ~> (voices[v].state # "active")

\* C4: as long as no note-off was delivered to a triggered voice, its
\* envelope is at or before its sustain point (levels 0, 1, 1), not released
\* and not done, it holds level 1 once it sustains, and the voice is active.
C4_SustainsUntilNoteOff ==
  \A v \in VoiceIds :
    (voices[v].state # "none" /\ ~voices[v].offCalled) =>
      /\ voices[v].state = "active"
      /\ voices[v].env.stage <= SustainPoint
      /\ ~voices[v].env.released
      /\ ~EnvDone(voices[v].env)
      /\ EnvValue(voices[v].env, voices[v].lengths) \in 0..Unit
      /\ voices[v].env.stage = SustainPoint =>
           EnvValue(voices[v].env, voices[v].lengths) = Unit

\* a voice whose key is still down has sustained long enough for its
\* follower to settle at the voice's level
C4_Witness ==
  \E v \in VoiceIds :
    /\ Active(v) /\ ~voices[v].offCalled /\ voices[v].id \notin offIds
    /\ voices[v].env.stage = SustainPoint
    /\ voices[v].follow = AmplitudeDefault - 1
    /\ audio.pc = "idle"

\* onProcess is entered for voice v in this step
EntersProcess(v) == audio.pc = "pick" /\ audio'.pc = "loop" /\ audio'.cur = v

\* a pass of the sample loop is made in this step
SampleNow == audio.pc = "loop" /\ audio'.pc = "loop"
             /\ audio'.frame = audio.frame + 1

RECURSIVE SumAdded(_, _, _)
SumAdded(vs, c, f) ==
  IF vs = {} THEN 0
  ELSE LET v == CHOOSE x \in vs : TRUE
       IN  added[v][c][f] + SumAdded(vs \ {v}, c, f)

\* C8: at every point of an audio callback each output frame holds the sum
\* of what the voices have added to it so far, in whatever order the voices
\* are rendered; a voice adds to a frame and never overwrites it.
C8_Accumulates ==
  \A c \in Channels : \A f \in Frames : out[c][f] = SumAdded(VoiceIds, c, f)

\* two voices were rendered into the same buffer, and the last frame holds
\* what both of them added
C8_Witness ==
  /\ audio.pc = "pick" /\ audio.pending = {}
  /\ \A v \in VoiceIds : Active(v) /\ added[v][0][MaxFrames] # 0
  /\ out[0][MaxFrames] = added[1][0][MaxFrames] + added[2][0][MaxFrames]
  /\ out[0][MaxFrames] # added[1][0][MaxFrames]

\* C10: a step of the window thread made while onProcess is in its sample
\* loop changes no sample that the loop has still to compute: the samples of
\* one buffer all come from the parameter values read on entry.
C10_OncePerCallback ==
  [][(audio.pc = "loop" /\ audio' = audio /\ audio.frame < MaxFrames) =>
       LET v == audio.cur
       IN  Panned(voices'[v], Sample(voices'[v]))
             = Panned(voices[v], Sample(voices[v]))]_vars

\* key is released in this step
ReleasedNow(key) == key \in heldKeys /\ key \notin heldKeys'

\* key is pressed in this step
PressedNow(key) == key \notin heldKeys /\ key \in heldKeys'

\* there is a voice that was triggered for this note
NoteOnIssued(note) ==
  \E v \in VoiceIds : voices[v].state # "none" /\ voices[v].id = note

\* C6 (as amended): releasing a key whose note is > 0 issues a note-off for
\* exactly that note and releasing any other key issues none, so the
\* release of a key that triggered a voice issues the note-off of that
\* voice's note.
C6_KeyUpIssuesNoteOff ==
  [][\A key \in Keys :
       ReleasedNow(key) =>
         /\ AsciiToMIDI(key) > 0 => offIds' = offIds \cup {AsciiToMIDI(key)}
         /\ AsciiToMIDI(key) <= 0 => offIds' = offIds
         /\ voices' = voices /\ control' = control /\ handled']_vars

\* the key of a sounding note is up again and the note's note-off is issued;
\* no note-off was issued for note 0
C6_Witness ==
  \E key \in NoteKeys :
    /\ key \notin heldKeys
    /\ AsciiToMIDI(key) \in offIds
    /\ NoteOnIssued(AsciiToMIDI(key))
    /\ 0 \notin offIds

\* C6 (as claimed), its last part: every note-off issued is for a note that
\* a note-on was issued for.
C6_NoNoteOffWithoutNoteOn ==
  \A note \in offIds : NoteOnIssued(note)

NoVoiceReleasedOrDone ==
  \A v \in VoiceIds :
    /\ ~voices[v].env.released
    /\ ~EnvDone(voices[v].env)
    /\ voices[v].state # "free"

====
